---- MODULE Spec2Model ----
(***************************************************************************)
(* A model of the insurance-claims service: the API-key gate, the claim    *)
(* and claim-log tables, the REST handlers of app/claims_api/main.py, the  *)
(* lazily built fraud classifier and the agent's tools.                    *)
(*                                                                         *)
(* Strings whose characters matter (identifiers, claim numbers, amounts    *)
(* given as text) are sequences of one-character strings; all other        *)
(* strings are TLA+ strings.                                               *)
(***************************************************************************)
EXTENDS Integers, Sequences, FiniteSets, TLC

\* ------------------------------------------------------------------ bounds
\* Worker threads that serve requests concurrently.
MaxThreads == 2
\* Rows the claims table may hold before the model stops creating.
MaxClaims == 2
\* Longest identifier sent to GET /claims/{claim_identifier}.
MaxIdLen == 2
\* Tool invocations the agent makes in one dispatch.
MaxTools == 1

Threads == 1..MaxThreads

\* ------------------------------------------------------- text and numbers
Digits == {"0", "1", "2", "3", "4", "5", "6", "7", "8", "9"}

DigitVal(c) ==
    CASE c = "0" -> 0 [] c = "1" -> 1 [] c = "2" -> 2 [] c = "3" -> 3
      [] c = "4" -> 4 [] c = "5" -> 5 [] c = "6" -> 6 [] c = "7" -> 7
      [] c = "8" -> 8 [] c = "9" -> 9

RECURSIVE LStrip(_)
LStrip(s) == IF s # <<>> /\ Head(s) = " " THEN LStrip(Tail(s)) ELSE s

RECURSIVE RStrip(_)
RStrip(s) ==
    IF s # <<>> /\ s[Len(s)] = " " THEN RStrip(SubSeq(s, 1, Len(s) - 1)) ELSE s

\* str.strip(): Python's int() and float() ignore surrounding whitespace.
Strip(s) == RStrip(LStrip(s))

\* The text after an optional sign.
Unsigned(s) == IF s # <<>> /\ Head(s) \in {"+", "-"} THEN Tail(s) ELSE s

\* Digits, with single underscores allowed between digits only.
DigitBody(b) ==
    /\ b # <<>>
    /\ \A i \in 1..Len(b) : b[i] \in Digits \cup {"_"}
    /\ b[1] \in Digits
    /\ b[Len(b)] \in Digits
    /\ \A i \in 1..(Len(b) - 1) : ~(b[i] = "_" /\ b[i + 1] = "_")

RECURSIVE DigitsValue(_, _)
DigitsValue(b, acc) ==
    IF b = <<>> THEN acc
    ELSE IF Head(b) = "_" THEN DigitsValue(Tail(b), acc)
    ELSE DigitsValue(Tail(b), 10 * acc + DigitVal(Head(b)))

\* int(s) does not raise ValueError.
IntParses(s) == DigitBody(Unsigned(Strip(s)))

\* int(s), for s with IntParses(s).
IntValue(s) ==
    LET t == Strip(s)
        v == DigitsValue(Unsigned(t), 0)
    IN IF Head(t) = "-" THEN 0 - v ELSE v

\* str(n) of a digit.
DigitText(d) ==
    CASE d = 0 -> "0" [] d = 1 -> "1" [] d = 2 -> "2" [] d = 3 -> "3"
      [] d = 4 -> "4" [] d = 5 -> "5" [] d = 6 -> "6" [] d = 7 -> "7"
      [] d = 8 -> "8" [] d = 9 -> "9"

RECURSIVE NatText(_)
NatText(n) == IF n < 10 THEN <<DigitText(n)>>
              ELSE NatText(n \div 10) \o <<DigitText(n % 10)>>

\* f"{claim_id}" of an int.
IntText(n) == IF n < 0 THEN <<"-">> \o NatText(0 - n) ELSE NatText(n)

\* float(s) does not raise ValueError.  The model's amount texts are drawn
\* from digits, signs, spaces, underscores and the letter "a", for which
\* float() and int() accept the same texts.
FloatParses(s) == IntParses(s)

\* float(s), for s with FloatParses(s); the model's amounts are whole.
FloatValue(s) == IntValue(s)

\* --------------------------------------------------------- JSON candidates
\* A field of a JSON body: left out, null, a text or a number.
Absent == [t |-> "absent"]
Null == [t |-> "null"]
Str(s) == [t |-> "str", s |-> s]
Num(n) == [t |-> "num", n |-> n]

Missing(v) == v.t \in {"absent", "null"}

\* The body of POST /claims (the fields of ClaimCreate the model follows).
Cand(cn, name, amt, st) ==
    [claim_number |-> cn, claimant_name |-> name, amount |-> amt, status |-> st]

NoCand == Cand(Absent, Absent, Absent, Absent)

\* ------------------------------------------------------------ the gate
API_KEY == "secret"
\* The X-API-Key header: "<missing>" stands for no header (None).
NoKey == "<missing>"
Keys == {API_KEY, "wrong", NoKey}

\* The dependency of every route: the header must equal API_KEY.
get_api_key_any(key) == key # NoKey
get_api_key(key) == key = API_KEY

\* --------------------------------------------------------- the tables
\* ClaimLog.claim_id is None.
None == 0

RECURSIVE MaxId(_)
MaxId(rows) ==
    IF rows = <<>> THEN 0
    ELSE LET m == MaxId(Tail(rows))
         IN IF Head(rows).id > m THEN Head(rows).id ELSE m

\* Claim.id and ClaimLog.id: an integer primary key the store assigns.
ColumnId(rows) == MaxId(rows) + 1

\* Claim.claim_number is unique: the commit of a second row with the same
\* claim_number raises IntegrityError.
UniqueViolationNever(rows, cn) == FALSE
UniqueViolation(rows, cn) == \E i \in 1..Len(rows) : rows[i].claim_number = cn

\* Query.first(): the first matching row, here a sequence of 0 or 1 rows.
First(rows) == IF rows = <<>> THEN <<>> ELSE <<Head(rows)>>

QueryById(rows, n) == First(SelectSeq(rows, LAMBDA r : r.id = n))
QueryByClaimNumber(rows, cn) == First(SelectSeq(rows, LAMBDA r : r.claim_number = cn))

\* ------------------------------------------------------------- the state
VARIABLES
    claims,             \* the claims table, rows in insertion order
    logs,               \* the claim_logs table, rows in insertion order
    tasks,              \* background tasks added and not yet run
    th,                 \* each worker thread: its request, position, response
    _fraud_classifier,  \* the module-level classifier, None until built
    _fraud_lock,        \* the thread holding _fraud_lock, 0 when free
    built               \* how many times pipeline(...) has returned

vars == <<claims, logs, tasks, th, _fraud_classifier, _fraud_lock, built>>

\* ------------------------------------------------- requests and responses
NoIdent == <<>>

Request(op, key, ident, cand, cid, filter) ==
    [op |-> op, key |-> key, ident |-> ident, cand |-> cand, cid |-> cid,
     filter |-> filter]

NoRequest == Request("none", NoKey, NoIdent, NoCand, 0, "")

Response(status, body) == [status |-> status, body |-> body]

Detail(msg, ident) == [kind |-> "detail", msg |-> msg, ident |-> ident]

NoResponse == Response(0, [kind |-> "none"])

\* HTTPException(status_code=401, detail="Invalid or missing API Key")
Unauthorized == Response(401, Detail("Invalid or missing API Key", NoIdent))

\* An exception no handler catches: the server answers 500.
InternalServerError == Response(500, Detail("Internal Server Error", NoIdent))

\* RequestValidationError: 422 with one error per failing field.
Unprocessable(fields) == Response(422, [kind |-> "errors", fields |-> fields])

\* A thread between requests (pc "idle" at start, "done" after a response),
\* or inside a handler.  exc, made and before are history: the exception
\* agent.run raised, the claim ids the agent's tool calls created, and the
\* claims table when the request was received.
Thread(pc, req, resp) ==
    [pc |-> pc, req |-> req, resp |-> resp, tools |-> 0, inst |-> None,
     tool |-> [name |-> "none", data |-> [kind |-> "text"], cid |-> 0,
               out |-> [k |-> "none"]],
     exc |-> "", made |-> {}, before |-> <<>>]

Free(t) == th[t].pc = "idle"

Done(req, resp) == Thread("done", req, resp)

\* The handler thread t is inside answers; the thread's history is kept.
Finish(t, resp) == [th[t] EXCEPT !.pc = "done", !.resp = resp]

Init ==
    /\ claims = <<>>
    /\ logs = <<>>
    /\ tasks = <<>>
    /\ th = [t \in Threads |-> Thread("idle", NoRequest, NoResponse)]
    /\ _fraud_classifier = None
    /\ _fraud_lock = 0
    /\ built = 0

\* ------------------------------------------------------- schemas.ClaimCreate
\* The fields of the body that fail validation, in declaration order.
ClaimCreateErrors(c) ==
    (IF Missing(c.claim_number) THEN <<"claim_number">> ELSE <<>>)
    \o (IF Missing(c.claimant_name) THEN <<"claimant_name">> ELSE <<>>)
    \o (IF Missing(c.amount) \/ (c.amount.t = "str" /\ ~FloatParses(c.amount.s))
        THEN <<"amount">> ELSE <<>>)

\* amount: float
ClaimCreateAmount(c) ==
    IF c.amount.t = "str" THEN FloatValue(c.amount.s) ELSE c.amount.n

\* status: Optional[str] = "pending" (the model's bodies leave status out or
\* give a text, never null)
ClaimCreateStatusDefaultApproved(c) ==
    IF c.status.t = "str" THEN c.status.s ELSE "approved"
ClaimCreateStatus(c) == IF c.status.t = "str" THEN c.status.s ELSE "pending"

\* is_approved: Optional[bool] = False (the model's bodies never give it)
ClaimCreateIsApproved(c) == FALSE

\* models.Claim(**claim.dict()): the row a commit writes.
ClaimRow(id, c) ==
    [id |-> id,
     claim_number |-> c.claim_number.s,
     claimant_name |-> c.claimant_name.s,
     amount |-> ClaimCreateAmount(c),
     status |-> ClaimCreateStatus(c),
     is_approved |-> ClaimCreateIsApproved(c)]

\* ----------------------------------------------------------- POST /claims
Creating == {t \in Threads : th[t].pc = "commit"}

\* The model stops accepting bodies that would add a row once the table,
\* with the commits under way, holds MaxClaims rows.
Room == Len(claims) + Cardinality(Creating) < MaxClaims

\* The request arrives: the gate, then the validation of the body.
create_claim_recv(t, key, c) ==
    LET req == Request("create_claim", key, NoIdent, c, 0, "") IN
    /\ Free(t)
    /\ IF ~get_api_key(key)
       THEN th' = [th EXCEPT ![t] = Done(req, Unauthorized)]
       ELSE IF ClaimCreateErrors(c) # <<>>
       THEN th' = [th EXCEPT ![t] = Done(req, Unprocessable(ClaimCreateErrors(c)))]
       ELSE /\ Room
            /\ th' = [th EXCEPT ![t] =
                        [Thread("commit", req, NoResponse) EXCEPT !.before = claims]]
    /\ UNCHANGED <<claims, logs, tasks, _fraud_classifier, _fraud_lock, built>>

\* db.add, db.commit, db.refresh, background_tasks.add_task, return.
\* The commit of a taken claim_number raises IntegrityError, which nothing
\* catches.
create_claim_always_logging(t) ==
    LET c == th[t].req.cand
        row == ClaimRow(ColumnId(claims), c)
    IN
    /\ th[t].pc = "commit"
    /\ IF UniqueViolation(claims, c.claim_number.s)
       THEN /\ th' = [th EXCEPT ![t] = Finish(t, InternalServerError)]
            /\ tasks' = Append(tasks, c.claim_number.s)
            /\ UNCHANGED claims
       ELSE /\ claims' = Append(claims, row)
            /\ tasks' = Append(tasks, row.claim_number)
            /\ th' = [th EXCEPT ![t] =
                        Finish(t, Response(201, [kind |-> "claim", claim |-> row]))]
    /\ UNCHANGED <<logs, _fraud_classifier, _fraud_lock, built>>
create_claim(t) ==
    LET c == th[t].req.cand
        row == ClaimRow(ColumnId(claims), c)
    IN
    /\ th[t].pc = "commit"
    /\ IF UniqueViolation(claims, c.claim_number.s)
       THEN /\ th' = [th EXCEPT ![t] = Finish(t, InternalServerError)]
            /\ UNCHANGED <<claims, tasks>>
       ELSE /\ claims' = Append(claims, row)
            /\ tasks' = Append(tasks, row.claim_number)
            /\ th' = [th EXCEPT ![t] =
                        Finish(t, Response(201, [kind |-> "claim", claim |-> row]))]
    /\ UNCHANGED <<logs, _fraud_classifier, _fraud_lock, built>>

\* The log row log_claim_creation writes for claim_number cn.
NullLogEntry(cn) ==
    [id |-> ColumnId(logs), claim_id |-> None, action |-> "create", message |-> cn]
LogEntry(cn) ==
    LET claim == QueryByClaimNumber(claims, cn) IN
    [id |-> ColumnId(logs),
     claim_id |-> IF claim # <<>> THEN claim[1].id ELSE None,
     action |-> "create",
     message |-> cn]

RemoveAt(q, i) == SubSeq(q, 1, i - 1) \o SubSeq(q, i + 1, Len(q))

\* The background task of one response runs.
log_claim_creation(i) ==
    /\ i \in 1..Len(tasks)
    /\ logs' = Append(logs, LogEntry(tasks[i]))
    /\ tasks' = RemoveAt(tasks, i)
    /\ UNCHANGED <<claims, th, _fraud_classifier, _fraud_lock, built>>

\* ------------------------------------------------------------ GET /claims
\* The rows a lookup by identifier reads: by id when int() parses the
\* identifier, by claim_number when it raises ValueError.
ResolveBoth(ident) ==
    IF IntParses(ident) /\ QueryById(claims, IntValue(ident)) # <<>>
    THEN QueryById(claims, IntValue(ident))
    ELSE QueryByClaimNumber(claims, ident)
Resolve(ident) ==
    IF IntParses(ident)
    THEN QueryById(claims, IntValue(ident))
    ELSE QueryByClaimNumber(claims, ident)

\* ClaimNotFound(claim_identifier), as claim_not_found_handler answers it.
ClaimNotFoundParsed(ident) ==
    Response(404, Detail("Claim with id {} not found (custom handler)",
                         IF IntParses(ident) THEN IntText(IntValue(ident)) ELSE ident))
ClaimNotFound(ident) ==
    Response(404, Detail("Claim with id {} not found (custom handler)", ident))

\* GET /claims/{claim_identifier}
get_claim(t, key, ident) ==
    LET req == Request("get_claim", key, ident, NoCand, 0, "")
        claim == Resolve(ident)
    IN
    /\ Free(t)
    /\ th' = [th EXCEPT ![t] =
                IF ~get_api_key(key) THEN Done(req, Unauthorized)
                ELSE IF claim = <<>> THEN Done(req, ClaimNotFound(ident))
                ELSE Done(req, Response(200, [kind |-> "claim", claim |-> claim[1]]))]
    /\ UNCHANGED <<claims, logs, tasks, _fraud_classifier, _fraud_lock, built>>

\* GET /claims?status=...: an empty status is no filter.
get_claims(t, key, status) ==
    LET req == Request("get_claims", key, NoIdent, NoCand, 0, status)
        rows == IF status # "" THEN SelectSeq(claims, LAMBDA r : r.status = status)
                ELSE claims
    IN
    /\ Free(t)
    /\ th' = [th EXCEPT ![t] =
                IF ~get_api_key(key) THEN Done(req, Unauthorized)
                ELSE Done(req, Response(200, [kind |-> "claims", rows |-> rows]))]
    /\ UNCHANGED <<claims, logs, tasks, _fraud_classifier, _fraud_lock, built>>

\* GET /claims/async, registered before /claims/{claim_identifier}.
get_claims_async(t, key) ==
    LET req == Request("get_claims_async", key, NoIdent, NoCand, 0, "") IN
    /\ Free(t)
    /\ th' = [th EXCEPT ![t] =
                IF ~get_api_key(key) THEN Done(req, Unauthorized)
                ELSE Done(req, Response(200, [kind |-> "claims", rows |-> claims]))]
    /\ UNCHANGED <<claims, logs, tasks, _fraud_classifier, _fraud_lock, built>>

\* GET /logs
get_logs(t, key) ==
    LET req == Request("get_logs", key, NoIdent, NoCand, 0, "") IN
    /\ Free(t)
    /\ th' = [th EXCEPT ![t] =
                IF ~get_api_key(key) THEN Done(req, Unauthorized)
                ELSE Done(req, Response(200, [kind |-> "logs", rows |-> logs]))]
    /\ UNCHANGED <<claims, logs, tasks, _fraud_classifier, _fraud_lock, built>>

\* GET /
root(t, key) ==
    LET req == Request("root", key, NoIdent, NoCand, 0, "") IN
    /\ Free(t)
    /\ th' = [th EXCEPT ![t] =
                IF ~get_api_key(key) THEN Done(req, Unauthorized)
                ELSE Done(req, Response(200, [kind |-> "message"]))]
    /\ UNCHANGED <<claims, logs, tasks, _fraud_classifier, _fraud_lock, built>>

\* ----------------------------------------------------------- the agent
\* The X-API-Key the tools send: agent_tools loads API_KEY as main does.
ToolKey == API_KEY

\* str(e) of the exceptions agent.run raises in the model.
AgentErrors == {"OutputParserException", "APIError"}

\* query_agent: agent.run returned; thr is the thread, its history kept.
AgentAnswered(thr) ==
    [thr EXCEPT !.pc = "done", !.resp = Response(200, [kind |-> "response"])]

\* query_agent: agent.run raised exc.
\* except Exception as e: raise HTTPException(status_code=500, detail=str(e))
AgentRaisedSwallowed(thr, exc) ==
    [thr EXCEPT !.pc = "done", !.exc = exc,
                !.resp = Response(200, [kind |-> "response"])]
AgentRaised(thr, exc) ==
    [thr EXCEPT !.pc = "done", !.exc = exc,
                !.resp = Response(500, Detail(exc, NoIdent))]

\* A tool returns out to the agent, which goes on.
ToolReturn(t, out) ==
    [th[t] EXCEPT !.pc = "agent", !.tool = [th[t].tool EXCEPT !.out = out]]

\* ------------------------------------------- GET /agent/check_fraud/{claim_id}
\* The handler's answer.  For a request of the check_claim_fraud tool it goes
\* to the tool, whose response.json() raises on the text body of a 500.
Answer(t, resp) ==
    IF th[t].req.op = "query_agent"
    THEN IF resp.status = 500
         THEN AgentRaised(th[t], "JSONDecodeError")
         ELSE ToolReturn(t, [k |-> "http", resp |-> resp])
    ELSE Finish(t, resp)

\* The claim_id of the fraud check thread t is serving.
FraudClaimId(t) ==
    IF th[t].req.op = "query_agent" THEN th[t].tool.cid ELSE th[t].req.cid

\* The request arrives: the gate, then the query for the claim.
check_fraudulent_claim_recv(t, key, claim_id) ==
    LET req == Request("check_fraudulent_claim", key, NoIdent, NoCand, claim_id, "")
        claim == QueryById(claims, claim_id)
    IN
    /\ Free(t)
    /\ th' = [th EXCEPT ![t] =
                IF ~get_api_key(key) THEN Done(req, Unauthorized)
                ELSE IF claim = <<>>
                THEN Done(req, Response(404, Detail("Claim not found", NoIdent)))
                ELSE [Thread("lock", req, NoResponse) EXCEPT !.before = claims]]
    /\ UNCHANGED <<claims, logs, tasks, _fraud_classifier, _fraud_lock, built>>

\* with _fraud_lock: a thread enters when no thread holds the lock.
LockAlwaysFree == TRUE
LockFree == _fraud_lock = 0

\* get_fraud_classifier: the lock is taken and _fraud_classifier tested.
get_fraud_classifier_enter(t) ==
    /\ th[t].pc = "lock"
    /\ LockFree
    /\ _fraud_lock' = t
    /\ th' = [th EXCEPT ![t].pc =
                IF _fraud_classifier = None THEN "pipeline" ELSE "return"]
    /\ UNCHANGED <<claims, logs, tasks, _fraud_classifier, built>>

\* get_fraud_classifier: pipeline(...) returns a new classifier, or raises;
\* the exception leaves the with block, freeing the lock, and no handler
\* catches it.
get_fraud_classifier_pipeline(t, ok) ==
    /\ th[t].pc = "pipeline"
    /\ IF ok
       THEN /\ _fraud_classifier' = built + 1
            /\ built' = built + 1
            /\ th' = [th EXCEPT ![t].pc = "return"]
            /\ UNCHANGED _fraud_lock
       ELSE /\ _fraud_lock' = IF _fraud_lock = t THEN 0 ELSE _fraud_lock
            /\ th' = [th EXCEPT ![t] = Answer(t, InternalServerError)]
            /\ UNCHANGED <<_fraud_classifier, built>>
    /\ UNCHANGED <<claims, logs, tasks>>

\* get_fraud_classifier: return _fraud_classifier, leaving the with block.
get_fraud_classifier_return(t) ==
    /\ th[t].pc = "return"
    /\ _fraud_lock' = IF _fraud_lock = t THEN 0 ELSE _fraud_lock
    /\ th' = [th EXCEPT ![t].pc = "classify", ![t].inst = _fraud_classifier]
    /\ UNCHANGED <<claims, logs, tasks, _fraud_classifier, built>>

\* classifier(claim_text, labels) and the answer, or the classifier raises.
\* The handler reads the claim and writes nothing.
check_fraudulent_claim_marking(t, ok) ==
    LET i == CHOOSE j \in 1..Len(claims) : claims[j].id = FraudClaimId(t) IN
    /\ th[t].pc = "classify"
    /\ th' = [th EXCEPT ![t] =
                IF ok
                THEN Answer(t, Response(200, [kind |-> "fraud",
                                              claim_id |-> FraudClaimId(t)]))
                ELSE Answer(t, InternalServerError)]
    /\ claims' = IF ok THEN [claims EXCEPT ![i].status = "rejected"] ELSE claims
    /\ UNCHANGED <<logs, tasks, _fraud_classifier, _fraud_lock, built>>
check_fraudulent_claim(t, ok) ==
    /\ th[t].pc = "classify"
    /\ th' = [th EXCEPT ![t] =
                IF ok
                THEN Answer(t, Response(200, [kind |-> "fraud",
                                              claim_id |-> FraudClaimId(t)]))
                ELSE Answer(t, InternalServerError)]
    /\ UNCHANGED <<claims, logs, tasks, _fraud_classifier, _fraud_lock, built>>

\* ------------------------------------------------------ POST /agent/query
\* The request arrives: the gate; agent.run(request.question) starts.
query_agent_recv(t, key) ==
    LET req == Request("query_agent", key, NoIdent, NoCand, 0, "") IN
    /\ Free(t)
    /\ th' = [th EXCEPT ![t] =
                IF ~get_api_key(key) THEN Done(req, Unauthorized)
                ELSE [Thread("agent", req, NoResponse) EXCEPT !.before = claims]]
    /\ UNCHANGED <<claims, logs, tasks, _fraud_classifier, _fraud_lock, built>>

\* The agent invokes a tool: the call is counted and its argument kept.
Invoke(t, name, data, cid) ==
    [th[t] EXCEPT !.tools = @ + 1,
                  !.tool = [name |-> name, data |-> data, cid |-> cid,
                            out |-> [k |-> "pending"]]]

Text(msg, field) == [k |-> "text", msg |-> msg, field |-> field]

RequiredFields == <<"claim_number", "claimant_name", "amount">>

\* The required fields that are not keys of the dictionary, in order.
NotIn(c) == SelectSeq(RequiredFields, LAMBDA f : c[f].t = "absent")

\* The create_claim tool up to its POST: the string it returns early, the
\* exception float() raises on a null amount (TypeError, which the tool does
\* not catch), or the body it posts.
ToolCreateClaimBody(data) ==
    IF data.kind = "text"
    THEN Text("Invalid data format. Please provide a valid dictionary.", "")
    ELSE IF NotIn(data.c) # <<>>
    THEN Text("Missing required field: {}", NotIn(data.c)[1])
    ELSE IF data.c.amount.t = "null"
    THEN [k |-> "raise", exc |-> "TypeError"]
    ELSE IF data.c.amount.t = "str" /\ ~FloatParses(data.c.amount.s)
    THEN Text("Invalid amount. Please provide a valid number.", "amount")
    ELSE [k |-> "post",
          body |-> [data.c EXCEPT !.amount = Num(ClaimCreateAmount(data.c))]]

\* The agent invokes the create_claim tool.  The tool's POST /claims is
\* served whole: the gate, the validation of the body and the commit.
tool_create_claim(t, data) ==
    LET call == Invoke(t, "create_claim", data, 0)
        pre == ToolCreateClaimBody(data)
        errs == ClaimCreateErrors(pre.body)
        row == ClaimRow(ColumnId(claims), pre.body)
        failed(resp) == [call EXCEPT !.tool.out = [k |-> "failed", resp |-> resp]]
    IN
    /\ th[t].pc = "agent"
    /\ th[t].tools < MaxTools
    /\ IF pre.k = "text"
       THEN /\ th' = [th EXCEPT ![t] = [call EXCEPT !.tool.out = pre]]
            /\ UNCHANGED <<claims, tasks>>
       ELSE IF pre.k = "raise"
       THEN /\ th' = [th EXCEPT ![t] =
                        AgentRaised([call EXCEPT !.tool.out = pre], pre.exc)]
            /\ UNCHANGED <<claims, tasks>>
       ELSE IF ~get_api_key(ToolKey)
       THEN /\ th' = [th EXCEPT ![t] = failed(Unauthorized)]
            /\ UNCHANGED <<claims, tasks>>
       ELSE IF errs # <<>>
       THEN /\ th' = [th EXCEPT ![t] = failed(Unprocessable(errs))]
            /\ UNCHANGED <<claims, tasks>>
       ELSE IF UniqueViolation(claims, pre.body.claim_number.s)
       THEN /\ th' = [th EXCEPT ![t] = failed(InternalServerError)]
            /\ UNCHANGED <<claims, tasks>>
       ELSE /\ Room
            /\ claims' = Append(claims, row)
            /\ tasks' = Append(tasks, row.claim_number)
            /\ th' = [th EXCEPT ![t] =
                        [call EXCEPT !.made = @ \cup {row.id},
                                     !.tool.out = [k |-> "created",
                                                   resp |-> Response(201,
                                                       [kind |-> "claim", claim |-> row])]]]
    /\ UNCHANGED <<logs, _fraud_classifier, _fraud_lock, built>>

\* The get_claim and get_claim_status tools (the same code): int(claim_id),
\* then GET /claims/{claim_id} with the integer, served whole.
ToolGetClaim(t, name, claim_id) ==
    LET call == Invoke(t, name, [kind |-> "text"], 0)
        ident == IntText(IntValue(claim_id))
        claim == Resolve(ident)
        out == IF ~IntParses(claim_id)
               THEN Text("Invalid claim ID. Please provide a valid integer.", "")
               ELSE IF ~get_api_key(ToolKey)
               THEN [k |-> "http", resp |-> Unauthorized]
               ELSE IF claim = <<>>
               THEN Text("Claim {} not found.", "")
               ELSE [k |-> "http",
                     resp |-> Response(200, [kind |-> "claim", claim |-> claim[1]])]
    IN
    /\ th[t].pc = "agent"
    /\ th[t].tools < MaxTools
    /\ th' = [th EXCEPT ![t] = [call EXCEPT !.tool.out = out]]
    /\ UNCHANGED <<claims, logs, tasks, _fraud_classifier, _fraud_lock, built>>

tool_get_claim(t, claim_id) == ToolGetClaim(t, "get_claim", claim_id)

tool_get_claim_status(t, claim_id) == ToolGetClaim(t, "get_claim_status", claim_id)

\* The check_claim_fraud tool: GET /agent/check_fraud/{claim_id}.  The gate
\* and the query are served at once; the rest of the handler runs as the
\* thread's own fraud check and answers the tool.
tool_check_claim_fraud(t, claim_id) ==
    LET call == Invoke(t, "check_claim_fraud", [kind |-> "text"], claim_id)
        claim == QueryById(claims, claim_id)
    IN
    /\ th[t].pc = "agent"
    /\ th[t].tools < MaxTools
    /\ th' = [th EXCEPT ![t] =
                IF ~get_api_key(ToolKey)
                THEN [call EXCEPT !.tool.out = [k |-> "http", resp |-> Unauthorized]]
                ELSE IF claim = <<>>
                THEN [call EXCEPT !.tool.out = Text("Claim {} not found.", "")]
                ELSE [call EXCEPT !.pc = "lock"]]
    /\ UNCHANGED <<claims, logs, tasks, _fraud_classifier, _fraud_lock, built>>

\* agent.run returns its answer, or raises (a parsing or a model error).
query_agent(t, exc) ==
    /\ th[t].pc = "agent"
    /\ th' = [th EXCEPT ![t] =
                IF exc = "" THEN AgentAnswered(th[t]) ELSE AgentRaised(th[t], exc)]
    /\ UNCHANGED <<claims, logs, tasks, _fraud_classifier, _fraud_lock, built>>

\* ------------------------------------------------------------- the inputs
\* claim_number values: digits only (equal or not to the id the row gets)
\* and not.
ClaimNumbers == {<<"1">>, <<"2">>, <<"A", "1">>}

Amounts == {Absent, Null, Num(7), Str(<<"5", "0">>), Str(<<"a">>)}

\* Bodies of POST /claims: every mix of missing, null and given required
\* fields with no status, and bodies that give a status.
Candidates ==
    {Cand(cn, name, amt, Absent) :
        cn \in {Absent, Null} \cup {Str(x) : x \in ClaimNumbers},
        name \in {Absent, Null, Str("Jo")},
        amt \in Amounts}
    \cup {Cand(Str(x), Str("Jo"), Num(7), Str("approved")) : x \in ClaimNumbers}

\* Bodies that differ in claim_number only.
PlainCandidates == {Cand(Str(x), Str("Jo"), Num(7), Absent) : x \in ClaimNumbers}

\* The bodies that pass validation.
Valid(c) == ClaimCreateErrors(c) = <<>>

\* Arguments of the create_claim tool: a string that is no JSON, or a
\* dictionary: every body that fails validation, and bodies that pass it
\* with the amount as a number or as a text.
ToolData ==
    {[kind |-> "text"]}
    \cup {[kind |-> "dict", c |-> c] : c \in {x \in Candidates : ~Valid(x)}}
    \cup {[kind |-> "dict", c |-> Cand(Str(x), Str("Jo"), Num(7), Absent)] :
            x \in {<<"1">>, <<"A", "1">>}}
    \cup {[kind |-> "dict", c |-> Cand(Str(<<"A", "1">>), Str("Jo"), Str(<<"5", "0">>), Absent)]}

IdChars == {"0", "1", "2", "A", "-", "+", "_", " "}

RECURSIVE Texts(_)
Texts(n) ==
    IF n = 0 THEN {<<>>}
    ELSE Texts(n - 1) \cup {Append(x, c) : x \in Texts(n - 1), c \in IdChars}

Async == <<"a", "s", "y", "n", "c">>

\* The last segment of GET /claims/{...}: never empty.
Identifiers == (Texts(MaxIdLen) \ {<<>>}) \cup {Async}

ClaimIds == 0..(MaxClaims + 1)

\* The claim the concurrent fraud checks are about, and the ids they ask for.
FraudCandidate == Cand(Str(<<"A", "1">>), Str("Jo"), Num(7), Absent)
FraudIds == {1, 2}

\* GET /claims/{x}: /claims/async is matched first.
get_claims_path(t, key, x) ==
    IF x = Async THEN get_claims_async(t, key) ELSE get_claim(t, key, x)

\* The response is sent and the thread takes the next request.
release(t) ==
    /\ th[t].pc = "done"
    /\ th' = [th EXCEPT ![t] = Thread("idle", NoRequest, NoResponse)]
    /\ UNCHANGED <<claims, logs, tasks, _fraud_classifier, _fraud_lock, built>>

\* ------------------------------------------------------ specifications
\* The claims service under concurrent requests.
Next ==
    \/ \E t \in Threads, c \in PlainCandidates : create_claim_recv(t, API_KEY, c)
    \/ \E t \in Threads : create_claim(t)
    \/ \E i \in 1..Len(tasks) : log_claim_creation(i)
    \/ \E t \in Threads : get_claims(t, API_KEY, "")
    \/ \E t \in Threads : get_logs(t, API_KEY)
    \/ \E t \in Threads : release(t)

Spec == Init /\ [][Next]_vars

\* One request at a time: every operation of the service, with any key.
NextGate ==
    \/ \E k \in Keys, c \in PlainCandidates : create_claim_recv(1, k, c)
    \/ create_claim(1)
    \/ \E i \in 1..Len(tasks) : log_claim_creation(i)
    \/ \E k \in Keys, x \in {<<"1">>, <<"A", "1">>, Async} : get_claims_path(1, k, x)
    \/ \E k \in Keys, st \in {"", "pending"} : get_claims(1, k, st)
    \/ \E k \in Keys : get_logs(1, k)
    \/ \E k \in Keys : root(1, k)
    \/ \E k \in Keys, id \in ClaimIds : check_fraudulent_claim_recv(1, k, id)
    \/ get_fraud_classifier_enter(1)
    \/ \E ok \in BOOLEAN : get_fraud_classifier_pipeline(1, ok)
    \/ get_fraud_classifier_return(1)
    \/ \E ok \in BOOLEAN : check_fraudulent_claim(1, ok)
    \/ \E k \in Keys : query_agent_recv(1, k)
    \/ \E c \in PlainCandidates : tool_create_claim(1, [kind |-> "dict", c |-> c])
    \/ \E x \in {<<"1">>, <<"A">>} : tool_get_claim(1, x)
    \/ \E x \in {<<"1">>, <<"A">>} : tool_get_claim_status(1, x)
    \/ \E id \in ClaimIds : tool_check_claim_fraud(1, id)
    \/ \E exc \in {""} \cup AgentErrors : query_agent(1, exc)
    \/ release(1)

SpecGate == Init /\ [][NextGate]_vars

\* One request at a time: creates, and lookups by every identifier.
NextLookup ==
    \/ \E c \in PlainCandidates : create_claim_recv(1, API_KEY, c)
    \/ create_claim(1)
    \/ \E i \in 1..Len(tasks) : log_claim_creation(i)
    \/ \E x \in Identifiers : get_claims_path(1, API_KEY, x)
    \/ release(1)

SpecLookup == Init /\ [][NextLookup]_vars

\* One request at a time: creates with every body.
NextCreate ==
    \/ \E c \in Candidates : create_claim_recv(1, API_KEY, c)
    \/ create_claim(1)
    \/ \E i \in 1..Len(tasks) : log_claim_creation(i)
    \/ \E st \in {"", "pending", "approved"} : get_claims(1, API_KEY, st)
    \/ release(1)

SpecCreate == Init /\ [][NextCreate]_vars

\* Concurrent fraud checks, of claims created meanwhile.
NextFraud ==
    \/ create_claim_recv(1, API_KEY, FraudCandidate)
    \/ create_claim(1)
    \/ \E i \in 1..Len(tasks) : log_claim_creation(i)
    \/ \E t \in Threads, id \in FraudIds : check_fraudulent_claim_recv(t, API_KEY, id)
    \/ \E t \in Threads : get_fraud_classifier_enter(t)
    \/ \E t \in Threads, ok \in BOOLEAN : get_fraud_classifier_pipeline(t, ok)
    \/ \E t \in Threads : get_fraud_classifier_return(t)
    \/ \E t \in Threads, ok \in BOOLEAN : check_fraudulent_claim(t, ok)
    \/ \E t \in Threads : release(t)

SpecFraud == Init /\ [][NextFraud]_vars

\* One request at a time: dispatches to the agent, whose tools get every
\* argument, fraud checks, and creates whose bodies fail validation.
NextAgent ==
    \/ \E c \in {x \in Candidates : ~Valid(x)} : create_claim_recv(1, API_KEY, c)
    \/ query_agent_recv(1, API_KEY)
    \/ \E d \in ToolData : tool_create_claim(1, d)
    \/ \E x \in {<<"1">>, <<"2">>, <<"A">>} : tool_get_claim(1, x)
    \/ \E x \in {<<"1">>, <<"2">>, <<"A">>} : tool_get_claim_status(1, x)
    \/ \E id \in ClaimIds : tool_check_claim_fraud(1, id)
    \/ \E exc \in {""} \cup AgentErrors : query_agent(1, exc)
    \/ \E i \in 1..Len(tasks) : log_claim_creation(i)
    \/ \E id \in ClaimIds : check_fraudulent_claim_recv(1, API_KEY, id)
    \/ get_fraud_classifier_enter(1)
    \/ \E ok \in BOOLEAN : get_fraud_classifier_pipeline(1, ok)
    \/ get_fraud_classifier_return(1)
    \/ \E ok \in BOOLEAN : check_fraudulent_claim(1, ok)
    \/ release(1)

SpecAgent == Init /\ [][NextAgent]_vars

\* Concurrent creates and their background tasks; the background task of
\* every response runs once the response is sent.
NextLog ==
    \/ \E t \in Threads, x \in {<<"1">>, <<"A", "1">>} :
          create_claim_recv(t, API_KEY, Cand(Str(x), Str("Jo"), Num(7), Absent))
    \/ \E t \in Threads : create_claim(t)
    \/ \E i \in 1..Len(tasks) : log_claim_creation(i)
    \/ \E t \in Threads : release(t)

FairSpec ==
    /\ Init
    /\ [][NextLog]_vars
    /\ WF_vars(\E i \in 1..Len(tasks) : log_claim_creation(i))

\* ------------------------------------------------------------- the claims
Rows(cn) == {i \in 1..Len(claims) : claims[i].claim_number = cn}

CreateLogs(id) ==
    {i \in 1..Len(logs) : logs[i].action = "create" /\ logs[i].claim_id = id}

\* Thread t has an answer to a POST /claims that came to its commit.
Committed(t) ==
    /\ th[t].pc = "done"
    /\ th[t].req.op = "create_claim"
    /\ th[t].resp.status \notin {401, 422}

\* Two answered creates of one claim_number that were both received while
\* the claim_number was unused, and so ran concurrently.
Raced(t, u) ==
    /\ t # u
    /\ Committed(t)
    /\ Committed(u)
    /\ th[t].req.cand.claim_number = th[u].req.cand.claim_number
    /\ ~UniqueViolation(th[t].before, th[t].req.cand.claim_number.s)
    /\ ~UniqueViolation(th[u].before, th[u].req.cand.claim_number.s)

\* C2: of two concurrent creates of one claim_number exactly one succeeds and
\* persists a claim; the other fails with a 4xx conflict error and persists
\* nothing.
C2_Claim ==
    \A t, u \in Threads :
        Raced(t, u) =>
            /\ Cardinality(Rows(th[t].req.cand.claim_number.s)) = 1
            /\ \/ th[t].resp.status = 201 /\ th[u].resp.status \in 400..499
               \/ th[u].resp.status = 201 /\ th[t].resp.status \in 400..499

\* What the code does in that race: one 201, and the other a 500.
C2_Code ==
    \A t, u \in Threads :
        Raced(t, u) =>
            /\ Cardinality(Rows(th[t].req.cand.claim_number.s)) = 1
            /\ \/ th[t].resp.status = 201 /\ th[u].resp = InternalServerError
               \/ th[u].resp.status = 201 /\ th[t].resp = InternalServerError

\* C3: no two Claim rows share an id, and no two share a claim_number.
C3_Unique ==
    \A i, j \in 1..Len(claims) :
        i # j => /\ claims[i].id # claims[j].id
                 /\ claims[i].claim_number # claims[j].claim_number

\* Two rows are stored and a create of a taken claim_number was refused.
C3_Witness ==
    /\ Len(claims) >= 2
    /\ \E t \in Threads : Committed(t) /\ th[t].resp.status = 500

\* C4: every create-log entry names the id of the claim whose creation it
\* records (never None, never another claim's id), no claim has two, and
\* every created claim eventually has exactly one.
C4_LogsOfClaims ==
    /\ [](\A i \in 1..Len(logs) :
            logs[i].action = "create" =>
                /\ logs[i].claim_id # None
                /\ \E j \in 1..Len(claims) :
                      /\ claims[j].id = logs[i].claim_id
                      /\ claims[j].claim_number = logs[i].message
                /\ Cardinality(CreateLogs(logs[i].claim_id)) = 1)
    /\ \A cn \in ClaimNumbers :
          (Rows(cn) # {}) ~>
              (\E j \in Rows(cn) : Cardinality(CreateLogs(claims[j].id)) = 1)

\* Every stored claim has its one create-log entry, after its response.
C4_Witness ==
    /\ Len(claims) >= 2
    /\ tasks = <<>>
    /\ \A j \in 1..Len(claims) : Cardinality(CreateLogs(claims[j].id)) = 1
    /\ \E t \in Threads : Committed(t) /\ th[t].resp.status = 201

\* Thread t has answered a request for operation op that passed the gate.
Served(t, op) ==
    /\ th[t].pc = "done"
    /\ th[t].req.op = op
    /\ get_api_key(th[t].req.key)

\* C1: a request whose X-API-Key is missing or is not API_KEY is answered
\* 401 at once, whatever the operation: no handler step runs for it (no tool,
\* no classifier) and the step that receives it leaves the tables, the
\* background tasks and the classifier as they were.
C1_Gate ==
    /\ [](\A t \in Threads :
            th[t].pc # "idle" /\ th[t].req.key # API_KEY =>
                /\ th[t].pc = "done"
                /\ th[t].resp = Unauthorized
                /\ th[t].tools = 0
                /\ th[t].inst = None)
    /\ [][\A t \in Threads :
            th'[t] # th[t] /\ th'[t].pc # "idle" /\ th'[t].req.key # API_KEY =>
                UNCHANGED <<claims, logs, tasks, _fraud_classifier, _fraud_lock, built>>]_vars

\* A create with a wrong key was refused while the table holds a claim.
C1_Witness ==
    /\ Len(claims) >= 1
    /\ th[1].pc = "done"
    /\ th[1].req.op = "create_claim"
    /\ th[1].req.key = "wrong"
    /\ th[1].resp.status = 401

\* The answer of a lookup that reads rows found.
LookupAnswer(found, ident) ==
    IF found = <<>>
    THEN Response(404, Detail("Claim with id {} not found (custom handler)", ident))
    ELSE Response(200, [kind |-> "claim", claim |-> found[1]])

\* C5: get_claim answers from the lookup by id == int(s) when int(s) parses,
\* and from the lookup by claim_number == s otherwise: one of the two, never
\* the other, for every identifier.
C5_Resolve ==
    \A t \in Threads :
        Served(t, "get_claim") =>
            LET s == th[t].req.ident IN
            /\ IntParses(s) =>
                  th[t].resp = LookupAnswer(QueryById(claims, IntValue(s)), s)
            /\ ~IntParses(s) =>
                  th[t].resp = LookupAnswer(QueryByClaimNumber(claims, s), s)

\* An identifier of digits that is a stored claim_number and no stored id is
\* not found.
C5_Witness ==
    /\ Served(1, "get_claim")
    /\ IntParses(th[1].req.ident)
    /\ QueryByClaimNumber(claims, th[1].req.ident) # <<>>
    /\ th[1].resp.status = 404

\* C6: a lookup that matches no row answers 404 with the identifier as the
\* caller gave it, and the lookup changes no table.
C6_NotFound ==
    /\ [](\A t \in Threads :
            Served(t, "get_claim") /\ Resolve(th[t].req.ident) = <<>> =>
                /\ th[t].resp.status = 404
                /\ th[t].resp.body.kind = "detail"
                /\ th[t].resp.body.ident = th[t].req.ident)
    /\ [][\A t \in Threads :
            th'[t] # th[t] /\ th'[t].pc = "done" /\ th'[t].req.op = "get_claim" =>
                UNCHANGED <<claims, logs, tasks>>]_vars

\* Not found, for an identifier int() parses that is not the text of its
\* integer.
C6_Witness ==
    /\ Served(1, "get_claim")
    /\ Len(claims) >= 1
    /\ IntParses(th[1].req.ident)
    /\ IntText(IntValue(th[1].req.ident)) # th[1].req.ident
    /\ th[1].resp.status = 404
    /\ th[1].resp.body.ident = th[1].req.ident

\* C8: a create that gives claim_number, claimant_name and a convertible
\* amount only, its claim_number unused, answers 201 with a stored row: the
\* amount as a number, status "pending", is_approved false, a new id, and
\* claim_number and claimant_name as given.
C8_Create ==
    \A t \in Threads :
        LET c == th[t].req.cand IN
        (/\ Served(t, "create_claim")
         /\ c.claim_number.t = "str"
         /\ c.claimant_name.t = "str"
         /\ c.amount \in {Num(7), Str(<<"5", "0">>)}
         /\ c.status = Absent
         /\ ~UniqueViolation(th[t].before, c.claim_number.s))
        =>
        /\ th[t].resp.status = 201
        /\ th[t].resp.body.kind = "claim"
        /\ LET row == th[t].resp.body.claim IN
           /\ \E i \in 1..Len(claims) : claims[i] = row
           /\ row.amount = (IF c.amount = Num(7) THEN 7 ELSE 50)
           /\ row.status = "pending"
           /\ row.is_approved = FALSE
           /\ row.claim_number = c.claim_number.s
           /\ row.claimant_name = c.claimant_name.s
           /\ row.id >= 1
           /\ \A i \in 1..Len(th[t].before) : th[t].before[i].id # row.id

\* A second claim was created from an amount given as a text.
C8_Witness ==
    /\ Served(1, "create_claim")
    /\ th[1].resp.status = 201
    /\ th[1].req.cand.amount = Str(<<"5", "0">>)
    /\ th[1].req.cand.status = Absent
    /\ Len(th[1].before) >= 1

\* The required fields of a body that are absent or null, in order.
Lacks(c) == SelectSeq(RequiredFields, LAMBDA f : Missing(c[f]))

\* The body lacks a required field or its amount is not convertible.
Defective(c) ==
    \/ Lacks(c) # <<>>
    \/ c.amount.t = "str" /\ ~FloatParses(c.amount.s)

InSeq(x, q) == \E i \in 1..Len(q) : q[i] = x

\* C7: a create whose body lacks a required field (absent or null) or whose
\* amount is not convertible fails with a validation error that names the
\* first such field, and creates nothing, whether it comes as POST /claims
\* or through the agent's create_claim tool.
C7_Claim ==
    \A t \in Threads :
        /\ (Served(t, "create_claim") /\ Defective(th[t].req.cand)) =>
              /\ th[t].resp.status = 422
              /\ Lacks(th[t].req.cand) # <<>> =>
                    InSeq(Lacks(th[t].req.cand)[1], th[t].resp.body.fields)
        /\ (/\ th[t].req.op = "query_agent"
            /\ th[t].tool.name = "create_claim"
            /\ th[t].tool.out.k # "pending"
            /\ th[t].tool.data.kind = "dict"
            /\ Defective(th[t].tool.data.c)) =>
              LET c == th[t].tool.data.c
                  out == th[t].tool.out
              IN
              /\ out.k \in {"text", "failed"}
              /\ out.k = "failed" => out.resp.status = 422
              /\ Lacks(c) # <<>> =>
                    \/ out.k = "text" /\ out.field = Lacks(c)[1]
                    \/ out.k = "failed" /\ InSeq(Lacks(c)[1], out.resp.body.fields)

\* C9: at most one thread is inside pipeline(...) at a time, it returns at
\* most once, once _fraud_classifier is set it is never set again and no
\* thread enters pipeline(...), and every call of get_fraud_classifier
\* returns the one classifier built.
C9_Once ==
    /\ [](/\ Cardinality({t \in Threads : th[t].pc = "pipeline"}) <= 1
          /\ built <= 1
          /\ _fraud_classifier \in {None, 1}
          /\ \A t \in Threads : th[t].pc \in {"pipeline", "return"} => _fraud_lock = t
          /\ \A t \in Threads :
                th[t].pc = "classify" => th[t].inst = 1 /\ _fraud_classifier = 1)
    /\ [][_fraud_classifier # None =>
            /\ _fraud_classifier' = _fraud_classifier
            /\ \A t \in Threads : th'[t].pc = "pipeline" => th[t].pc = "pipeline"]_vars

\* Two callers hold the classifier, built once.
C9_Witness ==
    /\ built = 1
    /\ \E t, u \in Threads :
          /\ t # u
          /\ th[t].pc = "classify"
          /\ th[u].pc = "classify"
          /\ th[t].inst = th[u].inst

\* Thread t has answered a dispatch in which agent.run raised, or a fraud
\* check in which the classifier or its construction raised.
UpstreamError(t) ==
    /\ th[t].pc = "done"
    /\ \/ th[t].req.op = "query_agent" /\ th[t].exc # ""
       \/ th[t].req.op = "check_fraudulent_claim" /\ th[t].resp.status = 500

\* C10 as claimed: after a dispatch or a fraud check that ends in an upstream
\* error the answer is one 500 and the claims are those from before the
\* request.
C10_Claim ==
    \A t \in Threads :
        UpstreamError(t) =>
            /\ th[t].resp.status = 500
            /\ claims = th[t].before

\* C10 as amended: the answer is one 500 carrying the message; after a fraud
\* check the claims are those from before the request, and after a dispatch
\* they are those from before it followed by the claims its create_claim
\* tool calls committed, which stay.
C10_Amended ==
    \A t \in Threads :
        UpstreamError(t) =>
            /\ th[t].resp.status = 500
            /\ th[t].resp.body.kind = "detail"
            /\ th[t].req.op = "query_agent" => th[t].resp.body.msg = th[t].exc
            /\ th[t].req.op = "check_fraudulent_claim" => th[t].made = {}
            /\ Len(claims) = Len(th[t].before) + Cardinality(th[t].made)
            /\ SubSeq(claims, 1, Len(th[t].before)) = th[t].before
            /\ \A i \in (Len(th[t].before) + 1)..Len(claims) : claims[i].id \in th[t].made

\* A dispatch failed after its create_claim tool call had created a claim.
C10_Witness ==
    /\ UpstreamError(1)
    /\ th[1].req.op = "query_agent"
    /\ th[1].made # {}
    /\ \E i \in 1..Len(claims) : claims[i].id \in th[1].made

\* The operations that read: lookups, listings, the fraud check, GET /.
ReadOps ==
    {"get_claim", "get_claims", "get_claims_async", "get_logs",
     "check_fraudulent_claim", "root"}

\* Every row of the table old is a row of new, unchanged and in its place.
Kept(old, new) == Len(new) >= Len(old) /\ SubSeq(new, 1, Len(old)) = old

\* The step is the commit of a POST /claims by thread t, sent by a client or
\* by the agent's create_claim tool.
CreateStep(t) ==
    \/ th[t].pc = "commit" /\ th'[t].pc = "done" /\ th'[t].resp.status = 201
    \/ /\ th[t].pc = "agent"
       /\ th'[t].tool.name = "create_claim"
       /\ th'[t].tool.out.k = "created"

\* C11: the claims and the claim_logs tables only grow: every step keeps
\* every row of both as it was; a step that adds a claim is the commit of one
\* POST /claims and adds that one row; a step that adds a log row is one run
\* of log_claim_creation and adds one "create" row; and no step of get_claim,
\* get_claims, get_logs, the fraud check or GET / changes either table.
C11_Grow ==
    [][/\ Kept(claims, claims')
       /\ Kept(logs, logs')
       /\ claims' # claims =>
              /\ Len(claims') = Len(claims) + 1
              /\ logs' = logs
              /\ \E t \in Threads : CreateStep(t)
       /\ logs' # logs =>
              /\ Len(logs') = Len(logs) + 1
              /\ logs'[Len(logs')].action = "create"
              /\ claims' = claims
              /\ th' = th
              /\ Len(tasks') = Len(tasks) - 1
       /\ \A t \in Threads :
              th'[t] # th[t] /\ th'[t].req.op \in ReadOps =>
                  claims' = claims /\ logs' = logs]_vars

\* A fraud check was answered while both tables hold rows.
C11_Witness ==
    /\ Len(claims) >= 2
    /\ Len(logs) >= 1
    /\ Served(1, "check_fraudulent_claim")
    /\ th[1].resp.status = 200

\* The answer get_claim gives when it returns the row c.
Returns(c) == Response(200, [kind |-> "claim", claim |-> c])

\* C12: every stored claim c is returned by get_claim(str(c.id)) and by
\* get_claim(c.claim_number), also when c.claim_number is digits only.
C12_Claim ==
    \A t \in Threads :
        Served(t, "get_claim") =>
            \A i \in 1..Len(claims) :
                /\ th[t].req.ident = IntText(claims[i].id) =>
                      th[t].resp = Returns(claims[i])
                /\ th[t].req.ident = claims[i].claim_number =>
                      th[t].resp = Returns(claims[i])

\* What the code does: str(c.id) returns c, and c.claim_number returns c
\* when int() does not parse it; a claim_number int() parses is looked up as
\* an id.
C12_Code ==
    \A t \in Threads :
        Served(t, "get_claim") =>
            \A i \in 1..Len(claims) :
                /\ th[t].req.ident = IntText(claims[i].id) =>
                      th[t].resp = Returns(claims[i])
                /\ (/\ th[t].req.ident = claims[i].claim_number
                    /\ ~IntParses(claims[i].claim_number)) =>
                      th[t].resp = Returns(claims[i])
                /\ (/\ th[t].req.ident = claims[i].claim_number
                    /\ IntParses(claims[i].claim_number)) =>
                      th[t].resp =
                          LookupAnswer(QueryById(claims, IntValue(th[t].req.ident)),
                                       th[t].req.ident)

\* The rows of claim_logs that record a creation.
CreateEntries == {i \in 1..Len(logs) : logs[i].action = "create"}

\* C13: in every state, between a response and its log write and under
\* concurrent creates too, every create-log entry has the id of a claim that
\* is in the table, no claim has two create-log entries, and the entries are
\* no more than the claims; every background task not yet run is for a
\* claim that is in the table and has no entry yet.
C13_ClaimBeforeLog ==
    /\ \A i \in CreateEntries :
          \E j \in 1..Len(claims) : claims[j].id = logs[i].claim_id
    /\ \A j \in 1..Len(claims) : Cardinality(CreateLogs(claims[j].id)) <= 1
    /\ Cardinality(CreateEntries) <= Len(claims)
    /\ \A k \in 1..Len(tasks) :
          \E j \in 1..Len(claims) :
              /\ claims[j].claim_number = tasks[k]
              /\ CreateLogs(claims[j].id) = {}

\* Two creates were answered, one refused; one claim has its entry and the
\* other's log write has not run yet.
C13_Witness ==
    /\ Len(claims) >= 2
    /\ Cardinality(CreateEntries) = 1
    /\ Len(tasks) = 1
    /\ \E j \in 1..Len(claims) : CreateLogs(claims[j].id) = {}
    /\ \E t, u \in Threads :
          /\ Committed(t) /\ th[t].resp.status = 201
          /\ Committed(u) /\ th[u].resp.status = 500

====
